---- MODULE Spec2Model ----
(***************************************************************************)
(* Year-progress page: the date arithmetic, the timer scheduling and the   *)
(* snapshot consumers of src/script.js (debounced single interval) and of  *)
(* src/unnamed/part_000 (two cadences: animation frame + static interval). *)
(*                                                                         *)
(* Time.  A local instant is [year, day, ms]: `day` whole days since       *)
(* January 1st 00:00 of `year`, `ms` the milliseconds into that day.  The  *)
(* source subtracts Date objects and gets one number of milliseconds; a    *)
(* year of milliseconds does not fit the model checker's integers, so the  *)
(* number day * MsPerDay + ms is kept as the pair and every division of    *)
(* the source is carried out on the pair (exact arithmetic; the rounding   *)
(* error of the source's doubles is not modelled).                         *)
(*                                                                         *)
(* Timers.  setInterval / setTimeout / requestAnimationFrame hand out ids  *)
(* that are never reused; the model keeps the set of ids whose callback is *)
(* still armed next to the program's own handle variables, so that a stale *)
(* handle (cleared or fired, but still stored) is visible as such.         *)
(***************************************************************************)
EXTENDS Integers, Sequences, FiniteSets, TLC

\* ------------------------------------------------------------------ bounds
\* Timer ids handed out in one run (ids are 1..MaxHandles, never reused).
MaxHandles == 5
\* The timed runs: the clock moves in steps of TimeStep ms up to MaxTime ms,
\* and a burst holds up to MaxTriggers calls of debouncedUpdateUI.
TimeStep == 50
MaxTime == 600
MaxTriggers == 3
\* The wall clock of an untimed run stops at the instant of this index.
MaxClock == 3
\* clipboard.writeText promises that may be unsettled at one time.
MaxWrites == 1
\* Steps of the clock in the runs that probe the date arithmetic.
\* The horizon of a run of the timed cadence, in ms.
MaxCadenceTime == 1250

\* html2canvas calls in flight at once.
MaxCaptures == 2

MaxDateSteps == 2

\* ------------------------------------------------------- program constants
UPDATE_INTERVAL == 500
DEBOUNCE_DELAY == 200
CLIPBOARD_BLOCKS_TOTAL == 15
MsPerDay == 24 * 60 * 60 * 1000

\* The null handle (updateTimer = null, debounceTimeout = null).
Null == 0

\* currentProgressData = {} : no record stored yet.
Absent == [absent |-> TRUE]

\* updateUI has not computed a record yet.
Never == [never |-> TRUE]

\* Nothing written to the page's progress elements yet.
NotShown == [blank |-> TRUE]

\* No text written to the clipboard yet.
NoText == [none |-> TRUE]

\* No toast element put on the page.
NoToast == [toast |-> FALSE]

\* The export click handler did not leave its try block.
NoExit == [exit |-> FALSE]

\* The wall-clock instants a run steps through (strictly increasing):
\* year start, exactly 0.5 %, just below 1.5 %, exactly 50 %, the last
\* millisecond of a common year, the start of the following leap year.
Instants ==
  << [year |-> 2023, day |-> 0,   ms |-> 0],
     [year |-> 2023, day |-> 1,   ms |-> 71280000],
     [year |-> 2023, day |-> 5,   ms |-> 40975999],
     [year |-> 2023, day |-> 182, ms |-> 43200000],
     [year |-> 2023, day |-> 364, ms |-> 86399999],
     [year |-> 2024, day |-> 0,   ms |-> 0] >>

\* The instants the date arithmetic is probed at: in century years with and
\* without a leap day and in ordinary ones, the first two days, the days
\* around February 29th, mid-year and the last two days, each at midnight,
\* one millisecond later, at noon and at the last millisecond.
DateYears == {1900, 2000, 2023, 2024, 2100}

DayTimes == {0, 1, 12 * 60 * 60 * 1000, 24 * 60 * 60 * 1000 - 1}

DaysOf(year) ==
  LET last == (IF (year % 4 = 0 /\ year % 100 # 0) \/ year % 400 = 0
                 THEN 366 ELSE 365) - 1
  IN  {0, 1, 58, 59, 182, last - 1, last}

DateInputs ==
  UNION {{[year |-> y, day |-> d, ms |-> m] : d \in DaysOf(y), m \in DayTimes} :
           y \in DateYears}

\* The steps of the clock between two probes, each below one day.
ClockSteps == {1, 12 * 60 * 60 * 1000, 24 * 60 * 60 * 1000 - 1}

\* ------------------------------------------------------------ the host zone
\* `new Date(year, 0, 1)` is local midnight in the host's time zone.  When
\* the zone's UTC offset is the same at both ends of a year the year lasts
\* its days times 24 h; a zone that changed its offset for good in between
\* makes the year that much longer or shorter (one hour, as in
\* Europe/Moscow in 2014 and 2011, America/Sao_Paulo in 2019).
VARIABLE zoneShift  \* ms by which the local year exceeds its days x 24 h

ZoneShifts == {0 - 60 * 60 * 1000, 0, 60 * 60 * 1000}

\* ---------------------------------------------------------- date arithmetic
\* Mutant: the leap-year test without the century rule.
isLeap_julian(year) == year % 4 = 0

isLeap(year) ==
  (year % 4 = 0 /\ year % 100 # 0) \/ year % 400 = 0

totalDaysInYear(year) == IF isLeap(year) THEN 366 ELSE 365

\* totalMsInYear = totalDaysInYear * 24 * 60 * 60 * 1000, as days and ms.
totalMsInYear(year) == [days |-> totalDaysInYear(year), ms |-> 0]

\* endOfYear - startOfYear = new Date(year + 1, 0, 1) - new Date(year, 0, 1)
\* in the host's zone, as days and ms.
yearLength(year) == [days |-> totalDaysInYear(year), ms |-> zoneShift]

\* Mutant: the percentage measured against a 365-day year, uncapped.
percentageOf_commonYear(days, ms, total) ==
  [days |-> days, ms |-> ms, of |-> 365]

\* Math.min(100, (msPassed / totalMsInYear) * 100) as the exact fraction
\* 100 * (days * MsPerDay + ms) / (of * MsPerDay).
percentageOf(days, ms, total) ==
  IF days > total \/ (days = total /\ ms > 0)
    THEN [days |-> total, ms |-> 0, of |-> total]
    ELSE [days |-> days, ms |-> ms, of |-> total]

\* p <= q for two percentages of one year (of the same `of`).
percentageLeq(p, q) ==
  p.days < q.days \/ (p.days = q.days /\ p.ms <= q.ms)

\* Mutant: daysPassed that counts the current day.
getYearProgressPrecise_countsToday(inst) ==
  LET total == totalDaysInYear(inst.year)
  IN  [ percentage      |-> percentageOf(inst.day, inst.ms, total),
        daysPassed      |-> inst.day + (inst.ms \div MsPerDay) + 1,
        daysRemaining   |-> (total - inst.day) + ((0 - inst.ms) \div MsPerDay),
        totalDaysInYear |-> total ]

\* Mutant: daysRemaining with Math.round in place of Math.floor.
getYearProgressPrecise_roundsRemaining(inst) ==
  LET total == totalDaysInYear(inst.year)
  IN  [ percentage      |-> percentageOf(inst.day, inst.ms, total),
        daysPassed      |-> inst.day + (inst.ms \div MsPerDay),
        daysRemaining   |-> (total - inst.day - 1)
                              + (IF 2 * inst.ms <= MsPerDay THEN 1 ELSE 0),
        totalDaysInYear |-> total ]

\* Mutant: the percentage taken from the time elapsed since local midnight
\* instead of since the start of the year.
getYearProgressPrecise_sinceMidnight(inst) ==
  LET total == totalDaysInYear(inst.year)
      len   == yearLength(inst.year)
  IN  [ percentage      |-> percentageOf(0, inst.ms, total),
        daysPassed      |-> inst.day + (inst.ms \div MsPerDay),
        daysRemaining   |-> (len.days - inst.day)
                              + ((len.ms - inst.ms) \div MsPerDay),
        totalDaysInYear |-> total ]

\* Mutant: the year boundaries of the run's first year kept for every later
\* computation.
getYearProgressPrecise_cachedYear(inst) ==
  LET year  == Instants[1].year
      total == totalDaysInYear(year)
      day   == IF inst.year > year THEN inst.day + total ELSE inst.day
  IN  [ percentage      |-> percentageOf(day, inst.ms, total),
        daysPassed      |-> day + (inst.ms \div MsPerDay),
        daysRemaining   |-> (total - day) + ((0 - inst.ms) \div MsPerDay),
        totalDaysInYear |-> total ]

\* getYearProgressPrecise() with `now` = inst.  msPassed = now - startOfYear
\* is the pair (inst.day, inst.ms); msRemaining = endOfYear - now is the
\* year's length minus msPassed.  Math.floor(x / msPerDay) on a pair
\* (d, r) is d + floor(r / msPerDay).  displayPercentage is a formatting of
\* `percentage` and is not kept.
getYearProgressPrecise(inst) ==
  LET total == totalDaysInYear(inst.year)
      len   == yearLength(inst.year)
  IN  [ percentage      |-> percentageOf(inst.day, inst.ms, total),
        daysPassed      |-> inst.day + (inst.ms \div MsPerDay),
        daysRemaining   |-> (len.days - inst.day)
                              + ((len.ms - inst.ms) \div MsPerDay),
        totalDaysInYear |-> total ]

\* Math.round(p) = floor(p + 1/2), p = 100 (d M + r) / (D M):
\* floor((200 d + D + floor(r / (M / 200))) / (2 D)).
mathRound(p) ==
  (200 * p.days + p.of + (p.ms \div (MsPerDay \div 200))) \div (2 * p.of)

\* p.toFixed(0): the integer n nearest to p, the larger one on a tie.
\* n0 = floor(p); n0 + 1 is taken when p - n0 >= 1/2, that is when
\* r >= (M / 200) * (D (2 n0 + 1) - 200 d).
toFixed0(p) ==
  LET n0 == (100 * p.days + (p.ms \div (MsPerDay \div 100))) \div p.of
      k  == p.of * (2 * n0 + 1) - 200 * p.days
  IN  IF p.ms >= (MsPerDay \div 200) * k THEN n0 + 1 ELSE n0

\* Mutant: numFilled with Math.floor in place of Math.round.
numFilledOf_floor(p) ==
  (CLIPBOARD_BLOCKS_TOTAL * p.days
     + (p.ms \div (MsPerDay \div CLIPBOARD_BLOCKS_TOTAL))) \div p.of

\* Math.round(percentageValue / (100 / CLIPBOARD_BLOCKS_TOTAL))
\* = floor((2 B d + D + floor(r / (M / (2 B)))) / (2 D)), B the block count.
numFilledOf(p) ==
  (2 * CLIPBOARD_BLOCKS_TOTAL * p.days + p.of
     + (p.ms \div (MsPerDay \div (2 * CLIPBOARD_BLOCKS_TOTAL)))) \div (2 * p.of)

\* The text copyToClipboard builds from a percentage: numFilled filled
\* glyphs, numEmpty empty glyphs, a space and `${p.toFixed(0)}%`.
clipboardTextOf(p) ==
  [ filled |-> numFilledOf(p),
    empty  |-> CLIPBOARD_BLOCKS_TOTAL - numFilledOf(p),
    pct    |-> toFixed0(p) ]

\* ------------------------------------------------------------------- state
VARIABLES
  hidden,               \* document.hidden
  now,                  \* index into Instants: the wall clock
  \* src/script.js
  domReady,             \* the DOMContentLoaded handler has run
  cleanedUp,            \* cleanup() has run (listeners removed)
  updateTimer,          \* let updateTimer
  debounceTimeout,      \* let debounceTimeout
  currentProgressData,  \* let currentProgressData
  intervals,            \* ids of armed setInterval timers
  timeouts,             \* ids of pending debounce setTimeout timers
  nextHandle,           \* the next timer id the host hands out
  exportDisabled,       \* exportButton.disabled
  exportPending,        \* the export handler is suspended at its await
  clipboardText,        \* the last text passed to clipboard.writeText
  clipboardWrites,      \* clipboard.writeText promises not settled yet
  \* observation of the run
  lastOp,               \* the handler that ran last
  repeated,             \* the handler before it was the same one
  lastCleared,          \* handles the last handler passed to clear*()
  computedAt,           \* the instant of updateUI's latest computation
  refreshAtExport,      \* updateTimer's interval was armed at the last export click
  hiddenHandled,        \* the listener has handled "hidden" and the page still is
  toastShown,           \* the toast the last handler put on the page
  exportExit,           \* how the last handler left the export's try block
  renderFailed,         \* updateUI's catch block ran in the last handler
  \* timed runs
  time,                 \* ms elapsed since the run began
  dueAt,                \* armed timer id -> the time it is due (next)
  burst,                \* debouncedUpdateUI calls of the burst (run) so far
  lastTriggerAt,        \* the time of the latest of them
  fired,                \* deferred updateUI executions since the burst began
  firedAt,              \* the time of the latest of them
  \* src/unnamed/part_000 (two cadences)
  tcReady,              \* its DOMContentLoaded handler has run
  animationFrameId,     \* let animationFrameId
  staticTimerId,        \* let staticTimerId
  tcFrames,             \* ids of pending requestAnimationFrame callbacks
  tcIntervals,          \* ids of armed setInterval timers
  tcNextHandle,         \* the next id the host hands out
  tcExportDisabled,     \* exportButton.disabled
  tcExportPending,      \* the export handler is suspended at its await
  tcDisplayed,          \* the percentage updateLiveElements showed last
  tcStaticShown,        \* the record updateStaticElements showed last
  tcClipboardText,      \* the last text passed to clipboard.writeText
  tcComputes,           \* getYearProgressPrecise calls of the last handler
  tcRound,              \* progress through start, stop, start (0..3)
  tcRoundMark,          \* the next id when that stop was handled
  \* src/unnamed/part_001 (simple interval)
  siReady,              \* its DOMContentLoaded handler has run
  siUpdateTimer,        \* let updateTimer
  siIntervals,          \* ids of armed setInterval timers
  siNextHandle,         \* the next timer id the host hands out
  siProgressData,       \* let currentProgressData
  siCaptures,           \* html2canvas promises not settled yet
  \* the date arithmetic on its own
  dateNow,              \* the instant `new Date()` returns in these runs
  dateSteps             \* steps their clock has made

envVars == <<hidden, now>>
jsVars == <<domReady, cleanedUp, updateTimer, debounceTimeout,
            currentProgressData, intervals, timeouts, nextHandle,
            exportDisabled, exportPending, clipboardText, clipboardWrites>>
obsVars == <<lastOp, repeated, lastCleared, computedAt, refreshAtExport,
             hiddenHandled, toastShown, exportExit, renderFailed>>
timedVars == <<time, dueAt, burst, lastTriggerAt, fired, firedAt>>
tcVars == <<tcReady, animationFrameId, staticTimerId, tcFrames, tcIntervals,
            tcNextHandle, tcExportDisabled, tcExportPending, tcDisplayed,
            tcStaticShown, tcClipboardText, tcComputes, tcRound, tcRoundMark>>
siVars == <<siReady, siUpdateTimer, siIntervals, siNextHandle, siProgressData,
            siCaptures>>
dateVars == <<dateNow, dateSteps, zoneShift>>
vars == <<envVars, jsVars, obsVars, timedVars, tcVars, siVars, dateVars>>

\* The instant t ms after inst (t below one day): what `new Date()` and
\* getFullYear() give once the clock has moved on, across midnight and
\* across the end of the year.
addMs(inst, t) ==
  LET r == inst.ms + t
      d == IF r >= MsPerDay THEN inst.day + 1 ELSE inst.day
      m == IF r >= MsPerDay THEN r - MsPerDay ELSE r
  IN  IF d >= totalDaysInYear(inst.year)
        THEN [year |-> inst.year + 1, day |-> d - totalDaysInYear(inst.year), ms |-> m]
        ELSE [year |-> inst.year, day |-> d, ms |-> m]

\* The instant `new Date()` returns at time x of the run.
InstantAt(x) == addMs(Instants[now], x)

\* The instant `new Date()` returns now.
CurrentInstant == InstantAt(time)

\* ------------------------------------------------- src/script.js, as record
\* The program state a handler starts from; `cleared` collects the handles
\* the handler passes to clearInterval / clearTimeout.
JS ==
  [ updateTimer         |-> updateTimer,
    debounceTimeout     |-> debounceTimeout,
    currentProgressData |-> currentProgressData,
    intervals           |-> intervals,
    timeouts            |-> timeouts,
    nextHandle          |-> nextHandle,
    exportDisabled      |-> exportDisabled,
    exportPending       |-> exportPending,
    clipboardText       |-> clipboardText,
    clipboardWrites     |-> clipboardWrites,
    cleared             |-> {},
    computedAt          |-> computedAt,
    toast               |-> NoToast,
    exit                |-> NoExit,
    renderThrows        |-> FALSE,
    caught              |-> FALSE ]

\* The same with the DOM in a state in which the writes of updateUI throw
\* (throws), or not.
JSRendering(throws) == [JS EXCEPT !.renderThrows = throws]

clearInterval(s, h) ==
  [s EXCEPT !.intervals = @ \ {h}, !.cleared = @ \cup {h}]

clearTimeout(s, h) ==
  [s EXCEPT !.timeouts = @ \ {h}, !.cleared = @ \cup {h}]

\* updateTimer = setInterval(debouncedUpdateUI, UPDATE_INTERVAL)
setIntervalUpdateTimer(s) ==
  [s EXCEPT !.intervals = @ \cup {s.nextHandle},
            !.updateTimer = s.nextHandle,
            !.nextHandle = @ + 1]

\* Mutant: updateUI that renders the stored record without computing one.
updateUI_noCompute(s, inst) ==
  [s EXCEPT !.computedAt = inst,
            !.caught = s.renderThrows]

\* updateUI(): stores the record of the current instant; the DOM writes
\* that follow are presentation, and an exception they throw is caught by
\* updateUI's own try/catch.
updateUI(s, inst) ==
  [s EXCEPT !.currentProgressData = getYearProgressPrecise(inst),
            !.computedAt = inst,
            !.caught = s.renderThrows]

\* Mutant: debouncedUpdateUI without its clearTimeout.
debouncedUpdateUI_noClear(s) ==
  [s EXCEPT !.timeouts = @ \cup {s.nextHandle},
            !.debounceTimeout = s.nextHandle,
            !.nextHandle = @ + 1]

\* debouncedUpdateUI(): clears the pending timeout, arms a new one.
debouncedUpdateUI(s) ==
  LET s1 == IF s.debounceTimeout # Null
              THEN clearTimeout(s, s.debounceTimeout) ELSE s
  IN  [s1 EXCEPT !.timeouts = @ \cup {s1.nextHandle},
                 !.debounceTimeout = s1.nextHandle,
                 !.nextHandle = @ + 1]

\* Mutant: a hidden branch that also empties the stored record.
stopUpdates_dropsRecord(s) ==
  [s EXCEPT !.intervals = @ \ {s.updateTimer},
            !.timeouts = @ \ {s.debounceTimeout},
            !.cleared = {s.updateTimer, s.debounceTimeout} \ {Null},
            !.updateTimer = Null,
            !.debounceTimeout = Null,
            !.currentProgressData = Absent]

\* handleVisibilityChange(), hidden branch.
stopUpdates(s) ==
  LET s1 == IF s.updateTimer # Null
              THEN [clearInterval(s, s.updateTimer) EXCEPT !.updateTimer = Null]
              ELSE s
  IN  IF s1.debounceTimeout # Null
        THEN [clearTimeout(s1, s1.debounceTimeout) EXCEPT !.debounceTimeout = Null]
        ELSE s1

\* Mutant: a visible branch whose updateUI has no try/catch, so that a
\* throwing render leaves the branch before its setInterval.
startUpdates_uncaught(s, inst) ==
  IF s.updateTimer = Null
    THEN IF s.renderThrows
           THEN [updateUI(s, inst) EXCEPT !.caught = FALSE]
           ELSE setIntervalUpdateTimer(updateUI(s, inst))
    ELSE s

\* handleVisibilityChange(), visible branch.
startUpdates(s, inst) ==
  IF s.updateTimer = Null
    THEN setIntervalUpdateTimer(updateUI(s, inst))
    ELSE s

handleVisibilityChange(s, isHidden, inst) ==
  IF isHidden THEN stopUpdates(s) ELSE startUpdates(s, inst)

\* DOMContentLoaded: setLanguage(initialLang) calls updateUI; then, if the
\* page is visible, updateUI and setInterval without a look at updateTimer.
domContentLoaded(s, isHidden, inst) ==
  LET s1 == updateUI(s, inst)
  IN  IF ~isHidden THEN setIntervalUpdateTimer(updateUI(s1, inst)) ELSE s1

\* Mutant: the export click handler without exportButton.disabled = true.
exportBegin_noDisable(s) ==
  IF s.updateTimer # Null THEN clearInterval(s, s.updateTimer) ELSE s

\* Export click handler up to its try block:
\* if (updateTimer) clearInterval(updateTimer); ... disabled = true.
exportBegin(s) ==
  LET s1 == IF s.updateTimer # Null THEN clearInterval(s, s.updateTimer) ELSE s
  IN  [s1 EXCEPT !.exportDisabled = TRUE]

\* Mutant: a finally block that does not restore exportButton.disabled.
exportFinally_keepsDisabled(s, isHidden) ==
  LET s1 == [s EXCEPT !.exportPending = FALSE]
  IN  IF ~isHidden /\ s1.updateTimer = Null
        THEN setIntervalUpdateTimer(s1)
        ELSE s1

\* Export click handler, finally block.
exportFinally(s, isHidden) ==
  LET s1 == [s EXCEPT !.exportDisabled = FALSE, !.exportPending = FALSE]
  IN  IF ~isHidden /\ s1.updateTimer = Null
        THEN setIntervalUpdateTimer(s1)
        ELSE s1

\* Mutant: copyToClipboard that computes a fresh record, as part_000 does.
copyToClipboard_recomputes(s) ==
  IF s.currentProgressData = Absent
    THEN s
    ELSE [s EXCEPT !.clipboardText =
                     clipboardTextOf(getYearProgressPrecise(CurrentInstant).percentage),
                   !.clipboardWrites = @ + 1]

\* Mutant: copyToClipboard whose guard lets an absent record through and
\* writes an empty bar.
copyToClipboard_noGuard(s) ==
  [s EXCEPT !.clipboardText =
              IF s.currentProgressData = Absent
                THEN [filled |-> 0, empty |-> 0, pct |-> 0]
                ELSE clipboardTextOf(s.currentProgressData.percentage),
            !.clipboardWrites = @ + 1]

\* copyToClipboard(): the guard, then the text from the stored record is
\* handed to navigator.clipboard.writeText, whose promise is left pending.
copyToClipboard(s) ==
  IF s.currentProgressData = Absent
    THEN s
    ELSE [s EXCEPT !.clipboardText =
                     clipboardTextOf(s.currentProgressData.percentage),
                   !.clipboardWrites = @ + 1]

\* Mutant: a settled clipboard write that also triggers a refresh.
clipboardSettled_refreshes(s, ok) ==
  debouncedUpdateUI(
    [s EXCEPT !.clipboardWrites = @ - 1,
              !.toast = [toast |-> TRUE, type |-> IF ok THEN "success" ELSE "error"]])

\* The writeText promise settles: .then shows the success toast, .catch
\* the error toast.
clipboardSettled(s, ok) ==
  [s EXCEPT !.clipboardWrites = @ - 1,
            !.toast = [toast |-> TRUE, type |-> IF ok THEN "success" ELSE "error"]]

\* cleanup(): clears both handles (the listeners go with cleanedUp).
cleanup(s) == stopUpdates(s)

\* ----------------------------------------------------------------- actions
\* A handler `op` ran and left the program in state s.
Ran0(op, s) ==
  /\ s.nextHandle <= MaxHandles + 1
  /\ s.clipboardWrites <= MaxWrites
  /\ updateTimer' = s.updateTimer
  /\ debounceTimeout' = s.debounceTimeout
  /\ currentProgressData' = s.currentProgressData
  /\ intervals' = s.intervals
  /\ timeouts' = s.timeouts
  /\ nextHandle' = s.nextHandle
  /\ exportDisabled' = s.exportDisabled
  /\ exportPending' = s.exportPending
  /\ clipboardText' = s.clipboardText
  /\ clipboardWrites' = s.clipboardWrites
  /\ lastCleared' = s.cleared
  /\ computedAt' = s.computedAt
  /\ toastShown' = s.toast
  /\ exportExit' = s.exit
  /\ renderFailed' = s.caught
  /\ lastOp' = op
  /\ repeated' = (lastOp = op)

\* The same in the runs that keep no time.
Ran(op, s) == Ran0(op, s) /\ UNCHANGED <<timedVars, tcVars, siVars, dateVars>>

\* The wall clock moves on.
ClockAdvance ==
  /\ now < Len(Instants) /\ now < MaxClock
  /\ now' = now + 1
  /\ UNCHANGED <<hidden, jsVars, obsVars, timedVars, tcVars, siVars, dateVars>>

\* A visibilitychange event: document.hidden is h (a duplicate notification
\* when h is what it was), then the listener registered at script load runs.
VisibilityChange(h) ==
  /\ ~cleanedUp
  /\ hidden' = h
  /\ hiddenHandled' = h
  /\ \E throws \in BOOLEAN :
       Ran(IF h THEN "hidden" ELSE "visible",
           handleVisibilityChange(JSRendering(throws), h, CurrentInstant))
  /\ UNCHANGED <<now, domReady, cleanedUp, refreshAtExport>>

\* The page's visibility changes after cleanup() removed the listener.
VisibilityUnheard(h) ==
  /\ cleanedUp
  /\ hidden # h
  /\ hidden' = h
  /\ hiddenHandled' = FALSE
  /\ UNCHANGED <<now, jsVars, lastOp, repeated, lastCleared, computedAt,
                 refreshAtExport, toastShown, exportExit, renderFailed,
                 timedVars, tcVars, siVars, dateVars>>

DOMContentLoaded ==
  /\ ~domReady
  /\ domReady' = TRUE
  /\ \E throws \in BOOLEAN :
       Ran("load", domContentLoaded(JSRendering(throws), hidden, CurrentInstant))
  /\ UNCHANGED <<hidden, now, cleanedUp, refreshAtExport, hiddenHandled>>

\* An armed interval fires: debouncedUpdateUI().
IntervalTick(id) ==
  /\ id \in intervals
  /\ Ran("tick", debouncedUpdateUI(JS))
  /\ UNCHANGED <<hidden, now, domReady, cleanedUp, refreshAtExport, hiddenHandled>>

\* A pending debounce timeout fires: updateUI().
DebounceFire(id) ==
  /\ id \in timeouts
  /\ \E throws \in BOOLEAN :
       Ran("debounce",
           updateUI([JSRendering(throws) EXCEPT !.timeouts = @ \ {id}], CurrentInstant))
  /\ UNCHANGED <<hidden, now, domReady, cleanedUp, refreshAtExport, hiddenHandled>>

\* languageToggle click: setLanguage(newLang) calls updateUI().
LanguageToggle ==
  /\ domReady /\ ~cleanedUp
  /\ \E throws \in BOOLEAN :
       Ran("language", updateUI(JSRendering(throws), CurrentInstant))
  /\ UNCHANGED <<hidden, now, domReady, cleanedUp, refreshAtExport, hiddenHandled>>

\* copyButton click.
Copy ==
  /\ domReady /\ ~cleanedUp
  /\ Ran("copy", copyToClipboard(JS))
  /\ UNCHANGED <<hidden, now, domReady, cleanedUp, refreshAtExport, hiddenHandled>>

\* copyToClipboard() called by its name before the click listener exists
\* (the function is a global of the page).
CopyCall ==
  /\ ~domReady
  /\ Ran("copy", copyToClipboard(JS))
  /\ UNCHANGED <<hidden, now, domReady, cleanedUp, refreshAtExport, hiddenHandled>>

\* A clipboard.writeText promise settles, fulfilled (ok) or rejected.
ClipboardSettle(ok) ==
  /\ clipboardWrites > 0
  /\ Ran(IF ok THEN "copied" ELSE "copyFailed", clipboardSettled(JS, ok))
  /\ UNCHANGED <<hidden, now, domReady, cleanedUp, refreshAtExport, hiddenHandled>>

\* exportButton click (a disabled button gets no click).  With the render
\* library or the export area missing the handler throws before its await
\* and runs catch and finally in the same step; otherwise it suspends.
ExportClick(outcome) ==
  /\ domReady /\ ~cleanedUp /\ ~exportDisabled
  /\ IF outcome = "capture"
       THEN Ran("exportStart", [exportBegin(JS) EXCEPT !.exportPending = TRUE])
       ELSE Ran("exportEnd",
                [exportFinally(exportBegin(JS), hidden) EXCEPT
                   !.exit = [exit |-> TRUE, by |-> outcome]])
  /\ refreshAtExport' = (updateTimer \in intervals)
  /\ UNCHANGED <<hidden, now, domReady, cleanedUp, hiddenHandled>>

\* html2canvas settles (resolved or rejected): the rest of try or catch,
\* then finally.
ExportSettle(ok) ==
  /\ exportPending
  /\ Ran("exportEnd",
         [exportFinally(JS, hidden) EXCEPT
            !.exit = [exit |-> TRUE, by |-> IF ok THEN "resolved" ELSE "rejected"]])
  /\ UNCHANGED <<hidden, now, domReady, cleanedUp, refreshAtExport, hiddenHandled>>

\* beforeunload: cleanup().
Cleanup ==
  /\ domReady /\ ~cleanedUp
  /\ cleanedUp' = TRUE
  /\ Ran("cleanup", cleanup(JS))
  /\ UNCHANGED <<hidden, now, domReady, refreshAtExport, hiddenHandled>>

\* src/unnamed/part_000 before its DOMContentLoaded.
TcInit ==
  /\ tcReady = FALSE
  /\ animationFrameId = Null
  /\ staticTimerId = Null
  /\ tcFrames = {}
  /\ tcIntervals = {}
  /\ tcNextHandle = 1
  /\ tcExportDisabled = FALSE
  /\ tcExportPending = FALSE
  /\ tcDisplayed = NotShown
  /\ tcStaticShown = NotShown
  /\ tcClipboardText = NoText
  /\ tcComputes = 0
  /\ tcRound = 0
  /\ tcRoundMark = 0

\* src/unnamed/part_001 after the script has run, before DOMContentLoaded.
SiInit ==
  /\ siReady = FALSE
  /\ siUpdateTimer = Null
  /\ siIntervals = {}
  /\ siNextHandle = 1
  /\ siProgressData = Absent
  /\ siCaptures = 0

\* The date arithmetic is not probed.
DateIdle ==
  /\ dateNow = Instants[1]
  /\ dateSteps = 0
  /\ zoneShift = 0

\* src/script.js after the script has run, before DOMContentLoaded.
JsInit ==
  /\ hidden \in BOOLEAN
  /\ now = 1
  /\ domReady = FALSE
  /\ cleanedUp = FALSE
  /\ updateTimer = Null
  /\ debounceTimeout = Null
  /\ currentProgressData = Absent
  /\ intervals = {}
  /\ timeouts = {}
  /\ nextHandle = 1
  /\ exportDisabled = FALSE
  /\ exportPending = FALSE
  /\ clipboardText = NoText
  /\ clipboardWrites = 0
  /\ lastOp = "init"
  /\ repeated = FALSE
  /\ lastCleared = {}
  /\ computedAt = Never
  /\ refreshAtExport = FALSE
  /\ hiddenHandled = FALSE
  /\ toastShown = NoToast
  /\ exportExit = NoExit
  /\ renderFailed = FALSE
  /\ time = 0
  /\ dueAt = <<>>
  /\ burst = 0
  /\ lastTriggerAt = 0
  /\ fired = 0
  /\ firedAt = 0

Init == TcInit /\ SiInit /\ JsInit /\ DateIdle

Next ==
  \/ ClockAdvance
  \/ \E h \in BOOLEAN : VisibilityChange(h)
  \/ \E h \in BOOLEAN : VisibilityUnheard(h)
  \/ DOMContentLoaded
  \/ \E id \in 1..MaxHandles : IntervalTick(id)
  \/ \E id \in 1..MaxHandles : DebounceFire(id)
  \/ LanguageToggle
  \/ Copy
  \/ CopyCall
  \/ \E ok \in BOOLEAN : ClipboardSettle(ok)
  \/ \E outcome \in {"capture", "libMissing", "areaMissing"} : ExportClick(outcome)
  \/ \E ok \in BOOLEAN : ExportSettle(ok)
  \/ Cleanup

Spec == Init /\ [][Next]_vars

\* ------------------------------------------- timed runs of the debounce
\* The page is loaded and visible (state after DOMContentLoaded: interval 1
\* armed, a record stored).  debounceTimeout is null, or the stale handle 2
\* of a timeout that has fired, or the handle of a timeout that is overdue
\* and has not fired yet.
InitBurst ==
  /\ TcInit
  /\ SiInit
  /\ DateIdle
  /\ hidden = FALSE
  /\ now \in 1..Len(Instants)
  /\ domReady = TRUE
  /\ cleanedUp = FALSE
  /\ updateTimer = 1
  /\ intervals = {1}
  /\ \E d \in {"null", "stale", "overdue"} :
       /\ debounceTimeout = (IF d = "null" THEN Null ELSE 2)
       /\ timeouts = (IF d = "overdue" THEN {2} ELSE {})
       /\ dueAt = [id \in timeouts |-> 0]
  /\ nextHandle = 3
  /\ currentProgressData = getYearProgressPrecise(Instants[now])
  /\ computedAt = Instants[now]
  /\ exportDisabled = FALSE
  /\ exportPending = FALSE
  /\ clipboardText = NoText
  /\ clipboardWrites = 0
  /\ lastOp = "load"
  /\ repeated = FALSE
  /\ lastCleared = {}
  /\ refreshAtExport = FALSE
  /\ hiddenHandled = FALSE
  /\ toastShown = NoToast
  /\ exportExit = NoExit
  /\ renderFailed = FALSE
  /\ time = 0
  /\ burst = 0
  /\ lastTriggerAt = 0
  /\ fired = 0
  /\ firedAt = 0

\* Time passes.
Elapse ==
  /\ time + TimeStep <= MaxTime
  /\ time' = time + TimeStep
  /\ UNCHANGED <<envVars, jsVars, obsVars, dueAt, burst, lastTriggerAt, fired,
                 firedAt, tcVars, siVars, dateVars>>

\* debouncedUpdateUI() is called: the first call of a burst, or a call less
\* than DEBOUNCE_DELAY after the one before.  setTimeout(..., DEBOUNCE_DELAY)
\* makes the new timeout due DEBOUNCE_DELAY from now (a run holds no call
\* whose timeout would fall due after the run's last clock step).
Trigger ==
  /\ burst < MaxTriggers
  /\ time + DEBOUNCE_DELAY <= MaxTime - TimeStep
  /\ burst = 0 \/ time - lastTriggerAt < DEBOUNCE_DELAY
  /\ LET s == debouncedUpdateUI(JS)
     IN  /\ Ran0("tick", s)
         /\ dueAt' = [id \in s.timeouts |->
                        IF id \in timeouts /\ id \in DOMAIN dueAt
                          THEN dueAt[id] ELSE time + DEBOUNCE_DELAY]
  /\ burst' = burst + 1
  /\ lastTriggerAt' = time
  /\ UNCHANGED <<envVars, domReady, cleanedUp, refreshAtExport, hiddenHandled,
                 time, fired, firedAt, tcVars, siVars, dateVars>>

\* A pending timeout fires, not before it is due: updateUI().
TimedDebounceFire(id) ==
  /\ id \in timeouts
  /\ time >= dueAt[id]
  /\ Ran0("debounce", updateUI([JS EXCEPT !.timeouts = @ \ {id}], CurrentInstant))
  /\ dueAt' = [i \in timeouts \ {id} |-> dueAt[i]]
  /\ fired' = (IF burst > 0 THEN fired + 1 ELSE fired)
  /\ firedAt' = time
  /\ UNCHANGED <<envVars, domReady, cleanedUp, refreshAtExport, hiddenHandled,
                 time, burst, lastTriggerAt, tcVars, siVars, dateVars>>

NextBurst ==
  \/ Elapse
  \/ Trigger
  \/ \E id \in 1..MaxHandles : TimedDebounceFire(id)

\* The host's clock keeps moving, and a timeout that is due and stays
\* pending has its callback run.
FairBurst ==
  /\ WF_vars(Elapse)
  /\ WF_vars(\E id \in 1..MaxHandles : TimedDebounceFire(id))

SpecBurst == InitBurst /\ [][NextBurst]_vars /\ FairBurst

\* --------------------------------------------- the discrete cadence, timed
\* The page from script load on, with the host's timers run on time: the
\* page becomes visible at most once and then stays visible, there is no
\* export and no unload.  dueAt holds the next due time of every armed
\* interval and of every pending debounce timeout.
InitCadence ==
  /\ TcInit
  /\ SiInit
  /\ JsInit
  /\ DateIdle

\* The due times after a handler left the program in state s: a timer just
\* armed is due its delay from now, the interval that has just ticked
\* (ticked, Null if none) UPDATE_INTERVAL from now, the others as before.
dueAfter(s, ticked) ==
  [id \in s.intervals \cup s.timeouts |->
     IF id \in s.intervals
       THEN IF id \in DOMAIN dueAt /\ id # ticked
              THEN dueAt[id] ELSE time + UPDATE_INTERVAL
       ELSE IF id \in DOMAIN dueAt
              THEN dueAt[id] ELSE time + DEBOUNCE_DELAY]

\* The hidden page becomes visible: the listener registered at script load
\* runs, before or after DOMContentLoaded.
CadenceShow ==
  /\ hidden
  /\ hidden' = FALSE
  /\ hiddenHandled' = FALSE
  /\ LET s == handleVisibilityChange(JS, FALSE, CurrentInstant)
     IN  /\ Ran0("visible", s)
         /\ dueAt' = dueAfter(s, Null)
  /\ UNCHANGED <<now, domReady, cleanedUp, refreshAtExport, time, burst,
                 lastTriggerAt, fired, firedAt, tcVars, siVars, dateVars>>

\* DOMContentLoaded.
CadenceLoad ==
  /\ ~domReady
  /\ domReady' = TRUE
  /\ LET s == domContentLoaded(JS, hidden, CurrentInstant)
     IN  /\ Ran0("load", s)
         /\ dueAt' = dueAfter(s, Null)
  /\ UNCHANGED <<hidden, now, cleanedUp, refreshAtExport, hiddenHandled, time,
                 burst, lastTriggerAt, fired, firedAt, tcVars, siVars, dateVars>>

\* An armed interval is due and ticks: debouncedUpdateUI() (a run holds no
\* tick whose timeout would fall due after the horizon).
CadenceTick(id) ==
  /\ id \in intervals
  /\ dueAt[id] = time
  /\ time + DEBOUNCE_DELAY <= MaxCadenceTime
  /\ LET s == debouncedUpdateUI(JS)
     IN  /\ Ran0("tick", s)
         /\ dueAt' = dueAfter(s, id)
  /\ burst' = burst + 1
  /\ lastTriggerAt' = time
  /\ UNCHANGED <<envVars, domReady, cleanedUp, refreshAtExport, hiddenHandled,
                 time, fired, firedAt, tcVars, siVars, dateVars>>

\* A pending debounce timeout is due and fires: updateUI().
CadenceFire(id) ==
  /\ id \in timeouts
  /\ dueAt[id] = time
  /\ LET s == updateUI([JS EXCEPT !.timeouts = @ \ {id}], CurrentInstant)
     IN  /\ Ran0("debounce", s)
         /\ dueAt' = dueAfter(s, Null)
  /\ fired' = fired + 1
  /\ firedAt' = time
  /\ UNCHANGED <<envVars, domReady, cleanedUp, refreshAtExport, hiddenHandled,
                 time, burst, lastTriggerAt, tcVars, siVars, dateVars>>

\* Time passes, never beyond a timer that is due: to the next due time, or
\* by TimeStep while the page is still loading.
CadenceElapse ==
  /\ \A id \in DOMAIN dueAt : dueAt[id] > time
  /\ \E t \in {dueAt[id] : id \in DOMAIN dueAt}
              \cup (IF domReady THEN {} ELSE {time + TimeStep}) :
       /\ t <= MaxCadenceTime
       /\ \A id \in DOMAIN dueAt : t <= dueAt[id]
       /\ time' = t
  /\ UNCHANGED <<envVars, jsVars, obsVars, dueAt, burst, lastTriggerAt, fired,
                 firedAt, tcVars, siVars, dateVars>>

NextCadence ==
  \/ CadenceShow
  \/ CadenceLoad
  \/ \E id \in 1..MaxHandles : CadenceTick(id)
  \/ \E id \in 1..MaxHandles : CadenceFire(id)
  \/ CadenceElapse

\* The page finishes loading, the host's clock keeps moving, and a timer
\* that is due has its callback run.
FairCadence ==
  /\ WF_vars(CadenceLoad)
  /\ WF_vars(CadenceElapse)
  /\ WF_vars(\E id \in 1..MaxHandles : CadenceTick(id))
  /\ WF_vars(\E id \in 1..MaxHandles : CadenceFire(id))

SpecCadence == InitCadence /\ [][NextCadence]_vars /\ FairCadence

\* ------------------------------------ the date arithmetic at chosen instants
\* The script has run and DOMContentLoaded has not: the page's functions are
\* called by name, with the local clock at an instant of DateInputs.
InitDates ==
  /\ TcInit
  /\ SiInit
  /\ JsInit
  /\ hidden = FALSE
  /\ dateNow \in DateInputs
  /\ dateSteps = 0
  /\ zoneShift = 0

\* The clock moves on by t ms.
TimePasses(t) ==
  /\ dateSteps < MaxDateSteps
  /\ dateNow' = addMs(dateNow, t)
  /\ dateSteps' = dateSteps + 1
  /\ lastOp' = "elapse"
  /\ UNCHANGED <<envVars, jsVars, repeated, lastCleared, computedAt,
                 refreshAtExport, hiddenHandled, toastShown, exportExit,
                 renderFailed, timedVars, tcVars, siVars, zoneShift>>

\* updateUI() is called: getYearProgressPrecise() at the instant dateNow,
\* its record stored.
Compute ==
  /\ Ran("compute", updateUI(JS, dateNow))
  /\ UNCHANGED <<envVars, domReady, cleanedUp, refreshAtExport, hiddenHandled>>

NextDates ==
  \/ \E t \in ClockSteps : TimePasses(t)
  \/ Compute
  \/ CopyCall
  \/ \E ok \in BOOLEAN : ClipboardSettle(ok)

SpecDates == InitDates /\ [][NextDates]_vars

\* ------------------------------------- the date arithmetic in the host zone
\* The same calls in a host whose zone is any of ZoneShifts, at instants of
\* one local year: the probes of DateInputs and those around the hour the
\* year gains or loses.
ZoneDayTimes ==
  DayTimes \cup {60 * 60 * 1000 - 1, 60 * 60 * 1000,
                 23 * 60 * 60 * 1000 - 1, 23 * 60 * 60 * 1000}

\* inst lies in its local year: startOfYear <= inst < endOfYear.
inYear(inst) ==
  LET len    == yearLength(inst.year)
      endDay == len.days + (len.ms \div MsPerDay)
      endMs  == len.ms % MsPerDay
  IN  inst.day < endDay \/ (inst.day = endDay /\ inst.ms < endMs)

\* The probes of the local year y.
ZoneInputsOf(y) ==
  {inst \in {[year |-> y, day |-> d, ms |-> m] :
               d \in DaysOf(y) \cup {totalDaysInYear(y)},
               m \in ZoneDayTimes} : inYear(inst)}

ZoneInputs == UNION {ZoneInputsOf(y) : y \in DateYears}

\* t1 <= t2 for two instants of one year.
notAfter(t1, t2) ==
  t1.day < t2.day \/ (t1.day = t2.day /\ t1.ms <= t2.ms)

InitZones ==
  /\ TcInit
  /\ SiInit
  /\ JsInit
  /\ hidden = FALSE
  /\ zoneShift \in ZoneShifts
  /\ dateNow \in ZoneInputs
  /\ dateSteps = 0

\* The clock moves on to a later instant of the same year.
ZoneTimePasses(inst) ==
  /\ inst # dateNow /\ notAfter(dateNow, inst)
  /\ dateNow' = inst
  /\ lastOp' = "elapse"
  /\ UNCHANGED <<envVars, jsVars, repeated, lastCleared, computedAt,
                 refreshAtExport, hiddenHandled, toastShown, exportExit,
                 renderFailed, timedVars, tcVars, siVars, dateSteps, zoneShift>>

NextZones ==
  \/ \E inst \in ZoneInputsOf(dateNow.year) : ZoneTimePasses(inst)
  \/ Compute

SpecZones == InitZones /\ [][NextZones]_vars

\* ------------------------------------------- src/unnamed/part_000, as record
TC ==
  [ animationFrameId |-> animationFrameId,
    staticTimerId    |-> staticTimerId,
    frames           |-> tcFrames,
    intervals        |-> tcIntervals,
    nextHandle       |-> tcNextHandle,
    exportDisabled   |-> tcExportDisabled,
    exportPending    |-> tcExportPending,
    displayed        |-> tcDisplayed,
    staticShown      |-> tcStaticShown,
    clipboardText    |-> tcClipboardText,
    cleared          |-> {},
    computes         |-> 0 ]

cancelAnimationFrame(s, h) ==
  [s EXCEPT !.frames = @ \ {h}, !.cleared = @ \cup {h}]

\* animationFrameId = requestAnimationFrame(animationLoop)
requestAnimationLoop(s) ==
  [s EXCEPT !.frames = @ \cup {s.nextHandle},
            !.animationFrameId = s.nextHandle,
            !.nextHandle = @ + 1]

\* staticTimerId = setInterval(updateStaticElements, STATIC_UPDATE_INTERVAL)
setIntervalStaticTimer(s) ==
  [s EXCEPT !.intervals = @ \cup {s.nextHandle},
            !.staticTimerId = s.nextHandle,
            !.nextHandle = @ + 1]

\* updateLiveElements(progress): bar width and percentage text.
updateLiveElements(s, progress) ==
  [s EXCEPT !.displayed = progress.percentage]

\* updateStaticElements(): computes a record, shows the day counters.
updateStaticElements(s, inst) ==
  [s EXCEPT !.staticShown = getYearProgressPrecise(inst),
            !.computes = @ + 1]

\* animationLoop(): computes, shows, requests the next frame.
animationLoop(s, inst) ==
  requestAnimationLoop(
    updateLiveElements([s EXCEPT !.computes = @ + 1],
                       getYearProgressPrecise(inst)))

\* animationLoop() in which updateLiveElements throws, after its writes
\* (wrote) or before them: the exception leaves animationLoop before its
\* requestAnimationFrame.
animationLoopThrows(s, inst, wrote) ==
  LET s1 == [s EXCEPT !.computes = @ + 1]
  IN  IF wrote THEN updateLiveElements(s1, getYearProgressPrecise(inst)) ELSE s1

\* Mutant: the hidden branch without its clearInterval.
tcStopUpdates_keepsInterval(s) ==
  cancelAnimationFrame(s, s.animationFrameId)

\* handleVisibilityChange() of part_000, hidden branch.
tcStopUpdates(s) ==
  clearInterval(cancelAnimationFrame(s, s.animationFrameId), s.staticTimerId)

\* handleVisibilityChange() of part_000, visible branch.
tcStartUpdates(s, inst) ==
  setIntervalStaticTimer(updateStaticElements(requestAnimationLoop(s), inst))

tcHandleVisibilityChange(s, isHidden, inst) ==
  IF isHidden THEN tcStopUpdates(s) ELSE tcStartUpdates(s, inst)

\* DOMContentLoaded of part_000: setLanguage calls updateStaticElements;
\* step 5 starts the loops if the page is visible.
tcDomContentLoaded(s, isHidden, inst) ==
  LET s1 == updateStaticElements(s, inst)
  IN  IF ~isHidden THEN tcStartUpdates(s1, inst) ELSE s1

\* Export click handler of part_000 up to its try block.
tcExportBegin(s) ==
  [tcStopUpdates(s) EXCEPT !.exportDisabled = TRUE]

\* Export click handler of part_000, finally block.
tcExportFinally(s, isHidden) ==
  LET s1 == [s EXCEPT !.exportDisabled = FALSE, !.exportPending = FALSE]
  IN  IF ~isHidden THEN setIntervalStaticTimer(requestAnimationLoop(s1)) ELSE s1

\* copyToClipboard() of part_000: computes a record and formats it.
tcCopyToClipboard(s, inst) ==
  LET progress == getYearProgressPrecise(inst)
  IN  [s EXCEPT !.clipboardText = clipboardTextOf(progress.percentage),
                !.computes = @ + 1]

\* A handler `op` of part_000 ran and left the program in state s.
TcRan(op, s) ==
  /\ s.nextHandle <= MaxHandles + 1
  /\ animationFrameId' = s.animationFrameId
  /\ staticTimerId' = s.staticTimerId
  /\ tcFrames' = s.frames
  /\ tcIntervals' = s.intervals
  /\ tcNextHandle' = s.nextHandle
  /\ tcExportDisabled' = s.exportDisabled
  /\ tcExportPending' = s.exportPending
  /\ tcDisplayed' = s.displayed
  /\ tcStaticShown' = s.staticShown
  /\ tcClipboardText' = s.clipboardText
  /\ tcComputes' = s.computes
  /\ lastCleared' = s.cleared
  /\ lastOp' = op
  /\ repeated' = (lastOp = op)
  /\ UNCHANGED <<jsVars, computedAt, refreshAtExport, hiddenHandled, toastShown,
                 exportExit, renderFailed, timedVars, siVars, dateVars>>

\* No frame callback pending and no interval armed.
TcIdle == tcFrames = {} /\ tcIntervals = {}

\* Where a handler leaves the sequence start, stop, start: a start from an
\* idle program opens it, the stop and the start that follow carry it on,
\* an export, a frame whose projection throws, or a start of a program that
\* is not idle ends it.
tcRoundAfter(op) ==
  CASE op = "start"   -> IF tcRound = 2 THEN 3 ELSE IF TcIdle THEN 1 ELSE 0
    [] op = "stop"    -> IF tcRound \in {1, 3} THEN 2 ELSE 0
    [] op = "export"  -> 0
    [] op = "frameThrew" -> 0
    [] OTHER          -> tcRound

\* The page's visibility changes before part_000 has registered its listener.
TcVisibilityUnheard(h) ==
  /\ ~tcReady
  /\ hidden # h
  /\ hidden' = h
  /\ UNCHANGED <<now, jsVars, obsVars, timedVars, tcVars, siVars, dateVars>>

\* A visibilitychange event handled by part_000's listener.
TcVisibilityChange(h) ==
  /\ tcReady
  /\ hidden' = h
  /\ TcRan(IF h THEN "hidden" ELSE "visible",
           tcHandleVisibilityChange(TC, h, CurrentInstant))
  /\ tcRound' = tcRoundAfter(IF h THEN "stop" ELSE "start")
  /\ tcRoundMark' = (IF h THEN tcNextHandle ELSE tcRoundMark)
  /\ UNCHANGED <<now, tcReady>>

TcDOMContentLoaded ==
  /\ ~tcReady
  /\ tcReady' = TRUE
  /\ TcRan("load", tcDomContentLoaded(TC, hidden, CurrentInstant))
  /\ tcRound' = (IF hidden THEN 0 ELSE tcRoundAfter("start"))
  /\ UNCHANGED <<hidden, now, tcRoundMark>>

\* A pending animation frame callback runs (the host runs none while the
\* page is hidden): animationLoop().
TcFrame(id) ==
  /\ id \in tcFrames
  /\ ~hidden
  /\ TcRan("frame", animationLoop([TC EXCEPT !.frames = @ \ {id}], CurrentInstant))
  /\ UNCHANGED <<hidden, now, tcReady, tcRound, tcRoundMark>>

\* A pending animation frame callback runs and updateLiveElements throws.
TcFrameThrows(id) ==
  /\ id \in tcFrames
  /\ ~hidden
  /\ \E wrote \in BOOLEAN :
       TcRan("frameThrew",
             animationLoopThrows([TC EXCEPT !.frames = @ \ {id}], CurrentInstant, wrote))
  /\ tcRound' = tcRoundAfter("frameThrew")
  /\ UNCHANGED <<hidden, now, tcReady, tcRoundMark>>

\* An armed static interval fires: updateStaticElements().
TcStaticTick(id) ==
  /\ id \in tcIntervals
  /\ TcRan("tick", updateStaticElements(TC, CurrentInstant))
  /\ UNCHANGED <<hidden, now, tcReady, tcRound, tcRoundMark>>

\* languageToggle click: setLanguage calls updateStaticElements().
TcLanguageToggle ==
  /\ tcReady
  /\ TcRan("language", updateStaticElements(TC, CurrentInstant))
  /\ UNCHANGED <<hidden, now, tcReady, tcRound, tcRoundMark>>

\* copyButton click.
TcCopy ==
  /\ tcReady
  /\ TcRan("copy", tcCopyToClipboard(TC, CurrentInstant))
  /\ UNCHANGED <<hidden, now, tcReady, tcRound, tcRoundMark>>

\* exportButton click of part_000.
TcExportClick(outcome) ==
  /\ tcReady /\ ~tcExportDisabled
  /\ IF outcome = "capture"
       THEN TcRan("exportStart", [tcExportBegin(TC) EXCEPT !.exportPending = TRUE])
       ELSE TcRan("exportEnd", tcExportFinally(tcExportBegin(TC), hidden))
  /\ tcRound' = tcRoundAfter("export")
  /\ UNCHANGED <<hidden, now, tcReady, tcRoundMark>>

\* html2canvas settles in part_000.
TcExportSettle(ok) ==
  /\ tcExportPending
  /\ TcRan("exportEnd", tcExportFinally(TC, hidden))
  /\ tcRound' = tcRoundAfter("export")
  /\ UNCHANGED <<hidden, now, tcReady, tcRoundMark>>

NextTwoCadence ==
  \/ ClockAdvance
  \/ \E h \in BOOLEAN : TcVisibilityUnheard(h)
  \/ \E h \in BOOLEAN : TcVisibilityChange(h)
  \/ TcDOMContentLoaded
  \/ \E id \in 1..MaxHandles : TcFrame(id)
  \/ \E id \in 1..MaxHandles : TcFrameThrows(id)
  \/ \E id \in 1..MaxHandles : TcStaticTick(id)
  \/ TcLanguageToggle
  \/ TcCopy
  \/ \E outcome \in {"capture", "libMissing", "areaMissing"} : TcExportClick(outcome)
  \/ \E ok \in BOOLEAN : TcExportSettle(ok)

SpecTwoCadence == Init /\ [][NextTwoCadence]_vars

\* ------------------------------------------- src/unnamed/part_001, as record
SI ==
  [ updateTimer  |-> siUpdateTimer,
    intervals    |-> siIntervals,
    nextHandle   |-> siNextHandle,
    progressData |-> siProgressData,
    captures     |-> siCaptures,
    cleared      |-> {} ]

\* updateUI() of part_001: stores the record of the current instant.
siUpdateUI(s, inst) ==
  [s EXCEPT !.progressData = getYearProgressPrecise(inst)]

\* handleVisibilityChange() of part_001.
siHandleVisibilityChange(s, isHidden, inst) ==
  IF isHidden
    THEN IF s.updateTimer # Null
           THEN [clearInterval(s, s.updateTimer) EXCEPT !.updateTimer = Null]
           ELSE s
    ELSE IF s.updateTimer = Null
           THEN setIntervalUpdateTimer(siUpdateUI(s, inst))
           ELSE s

\* DOMContentLoaded of part_001: setLanguage calls updateUI; then, if the
\* page is visible, updateUI and setInterval.
siDomContentLoaded(s, isHidden, inst) ==
  LET s1 == siUpdateUI(s, inst)
  IN  IF ~isHidden THEN setIntervalUpdateTimer(siUpdateUI(s1, inst)) ELSE s1

\* The export click handler of part_001:
\* if (updateTimer) clearInterval(updateTimer); html2canvas(...).
siExportClick(s) ==
  [(IF s.updateTimer # Null THEN clearInterval(s, s.updateTimer) ELSE s)
     EXCEPT !.captures = @ + 1]

\* A capture settles: .then or .catch, and .finally restarts the interval
\* if the page is visible and updateTimer is falsy.
siExportFinally(s, isHidden) ==
  LET s1 == [s EXCEPT !.captures = @ - 1]
  IN  IF ~isHidden /\ s1.updateTimer = Null
        THEN setIntervalUpdateTimer(s1)
        ELSE s1

\* A handler `op` of part_001 ran and left the program in state s.
SiRan(op, s) ==
  /\ s.nextHandle <= MaxHandles + 1
  /\ s.captures <= MaxCaptures
  /\ siUpdateTimer' = s.updateTimer
  /\ siIntervals' = s.intervals
  /\ siNextHandle' = s.nextHandle
  /\ siProgressData' = s.progressData
  /\ siCaptures' = s.captures
  /\ lastCleared' = s.cleared
  /\ lastOp' = op
  /\ repeated' = (lastOp = op)
  /\ UNCHANGED <<now, jsVars, computedAt, refreshAtExport, hiddenHandled,
                 toastShown, exportExit, renderFailed, timedVars, tcVars,
                 dateVars>>

\* A visibilitychange event in part_001 (listener registered at script load).
SiVisibilityChange(h) ==
  /\ hidden' = h
  /\ SiRan(IF h THEN "hidden" ELSE "visible",
           siHandleVisibilityChange(SI, h, CurrentInstant))
  /\ UNCHANGED siReady

SiDOMContentLoaded ==
  /\ ~siReady
  /\ siReady' = TRUE
  /\ SiRan("load", siDomContentLoaded(SI, hidden, CurrentInstant))
  /\ UNCHANGED hidden

\* An armed interval of part_001 fires: updateUI().
SiIntervalTick(id) ==
  /\ id \in siIntervals
  /\ SiRan("tick", siUpdateUI(SI, CurrentInstant))
  /\ UNCHANGED <<hidden, siReady>>

\* exportButton click in part_001 (listener registered at script load; the
\* button is never disabled).
SiExportClick ==
  /\ SiRan("exportStart", siExportClick(SI))
  /\ UNCHANGED <<hidden, siReady>>

\* One of the pending html2canvas promises of part_001 settles.
SiExportSettle(ok) ==
  /\ siCaptures > 0
  /\ SiRan(IF ok THEN "exportEnd" ELSE "exportFailed", siExportFinally(SI, hidden))
  /\ UNCHANGED <<hidden, siReady>>

NextSimple ==
  \/ ClockAdvance
  \/ \E h \in BOOLEAN : SiVisibilityChange(h)
  \/ SiDOMContentLoaded
  \/ \E id \in 1..MaxHandles : SiIntervalTick(id)
  \/ SiExportClick
  \/ \E ok \in BOOLEAN : SiExportSettle(ok)

SpecSimple == Init /\ [][NextSimple]_vars

\* ------------------------------------------------------------------ claims

\* C1: after an export started while the refresh was running finishes
\* (capture succeeded or threw), a visible page has its refresh interval
\* armed again.
C1_ExportRearmsInterval ==
  (lastOp = "exportEnd" /\ refreshAtExport /\ ~hidden) => intervals # {}

\* C2: between the export click and the end of its finally block no
\* timer-driven updateUI runs (no debounce timeout fires).
C2_NoTimerUpdateDuringExport ==
  ~(exportPending /\ lastOp = "debounce")

\* C3: while the page is hidden and the listener has handled the hidden
\* transition, no interval and no debounce timeout is armed and no
\* timer-driven updateUI runs.
C3_NoTimersWhileHidden ==
  hiddenHandled => (intervals = {} /\ timeouts = {} /\ lastOp # "debounce")

\* C4: in part_000 a "visible" notification that follows a "visible"
\* notification does not double-arm: one frame callback pending, one static
\* interval armed.
C4_VisibleTwiceArmsOnce ==
  (lastOp = "visible" /\ repeated) =>
    (Cardinality(tcFrames) = 1 /\ Cardinality(tcIntervals) = 1)

\* C5: copyToClipboard builds its text from the stored record only: the
\* whole-number percentage in the text is the rounded percentage of the
\* record the latest updateUI computed, no recomputation happens and the
\* stored record is left as it was (nothing is written without a record).
C5_CopyUsesStoredRecord ==
  [][Copy =>
       /\ currentProgressData' = currentProgressData
       /\ computedAt' = computedAt
       /\ IF computedAt = Never
            THEN clipboardText' = clipboardText
            ELSE clipboardText'.pct =
                   mathRound(getYearProgressPrecise(computedAt).percentage)]_vars

\* C5 witness: a copy has been made from a stored record after the clock
\* moved past a rounding step, so a recomputation would give another number.
C5_Witness ==
  /\ lastOp = "copy"
  /\ currentProgressData # Absent
  /\ clipboardText # NoText
  /\ clipboardText.pct = mathRound(currentProgressData.percentage)
  /\ mathRound(getYearProgressPrecise(CurrentInstant).percentage) # clipboardText.pct

\* C6: in part_000 the clipboard text carries the percentage the live
\* projection displayed last, not one computed when the copy is made.
C6_CopyEmitsDisplayed ==
  (lastOp = "copy" /\ tcDisplayed # NotShown) =>
    tcClipboardText.pct = toFixed0(tcDisplayed)

\* C7: a burst of debouncedUpdateUI calls, each less than DEBOUNCE_DELAY
\* after the one before, results in exactly one updateUI: until it runs
\* exactly one timeout is pending, due DEBOUNCE_DELAY after the last call;
\* once it has run (not before that time) nothing is pending; and it does
\* run.
C7_BurstYieldsOneUpdate ==
  /\ [](burst >= 1 =>
          \/ /\ fired = 0
             /\ timeouts = {debounceTimeout}
             /\ dueAt[debounceTimeout] = lastTriggerAt + DEBOUNCE_DELAY
          \/ /\ fired = 1
             /\ timeouts = {}
             /\ firedAt >= lastTriggerAt + DEBOUNCE_DELAY)
  /\ (burst >= 1) ~> (fired = 1)

\* C7 witness: a burst of several calls has been coalesced into its one
\* execution.
C7_Witness ==
  burst >= 2 /\ fired = 1 /\ lastOp = "debounce" /\ lastTriggerAt > 0

\* C8 as stated: the one updateUI of a burst uses the record computed at
\* the time of the last trigger.
C8_RecordOfLastTrigger ==
  (burst >= 1 /\ fired = 1) =>
    currentProgressData = getYearProgressPrecise(InstantAt(lastTriggerAt))

\* C8 amended: the one updateUI of a burst uses the record computed when
\* the deferred timer fires, DEBOUNCE_DELAY or more after the last trigger.
C8_RecordOfFiring ==
  (burst >= 1 /\ fired = 1) =>
    /\ currentProgressData = getYearProgressPrecise(InstantAt(firedAt))
    /\ firedAt >= lastTriggerAt + DEBOUNCE_DELAY

\* C8 witness: the deferred updateUI of a burst has run and stored a record
\* that is not the one of the last trigger's instant.
C8_Witness ==
  /\ burst >= 2 /\ fired = 1 /\ lastOp = "debounce"
  /\ currentProgressData # getYearProgressPrecise(InstantAt(lastTriggerAt))

\* C9: a second "hidden" notification right after a first leaves the state
\* of the first (both handles null, no timer armed, record unchanged) and
\* cancels nothing.
C9_StopIdempotent ==
  [][(lastOp = "hidden" /\ VisibilityChange(TRUE)) =>
       /\ UNCHANGED jsVars
       /\ updateTimer' = Null /\ debounceTimeout' = Null
       /\ intervals' = {} /\ timeouts' = {}
       /\ lastCleared' = {}]_vars

\* C10: in part_000, start, stop, start from an idle program ends with one
\* frame callback pending and one static interval armed, none of them from
\* the first start, and the second start computes exactly once.
C10_StartStopStart ==
  tcRound = 3 =>
    /\ Cardinality(tcFrames) = 1 /\ Cardinality(tcIntervals) = 1
    /\ \A id \in tcFrames \cup tcIntervals : id >= tcRoundMark
    /\ lastOp = "visible" => tcComputes = 1

\* C10 witness: the second start has just run, after a first start whose
\* frame loop had run and a stop.
C10_Witness ==
  /\ tcRound = 3 /\ lastOp = "visible" /\ ~hidden
  /\ tcRoundMark >= 4
  /\ tcDisplayed # NotShown
  /\ animationFrameId \in tcFrames /\ staticTimerId \in tcIntervals

\* C11: at most one export is in flight: while the export handler is
\* suspended at its await the button is disabled, and no export click
\* handler starts before the finally block of the one in flight has run.
C11_OneExportInFlight ==
  /\ [](exportPending => exportDisabled)
  /\ [][(\E outcome \in {"capture", "libMissing", "areaMissing"} :
           ExportClick(outcome)) => ~exportPending /\ ~exportDisabled]_vars

\* C11 witness: an export is in flight with the button disabled, and the
\* page has handled another event since the click.
C11_Witness ==
  exportPending /\ exportDisabled /\ lastOp \in {"tick", "language", "copy", "visible"}

\* C12: whichever way the export handler leaves its try block (capture
\* resolved, render library missing, export area missing, render call
\* rejected), its finally block has run: no handler is suspended, the
\* export button is enabled again, and while the click listener is
\* registered a new export click is accepted.
C12_ExportReleasedOnEveryExit ==
  exportExit # NoExit =>
    /\ exportExit.by \in {"resolved", "libMissing", "areaMissing", "rejected"}
    /\ lastOp = "exportEnd"
    /\ ~exportPending
    /\ ~exportDisabled
    /\ ~cleanedUp => ENABLED ExportClick("capture")

\* C12 witness: the render call rejected, the handler has run its catch and
\* finally, and the button takes clicks again.
C12_Witness ==
  /\ exportExit # NoExit /\ exportExit.by = "rejected"
  /\ ~exportDisabled /\ ~exportPending /\ ~cleanedUp

\* C13: copyToClipboard called while no record has been stored is a no-op:
\* no text is handed to the clipboard, no write is left pending (so no
\* toast follows), no toast is shown, and the program state is unchanged.
C13_CopyWithoutRecordIsNoOp ==
  [][((Copy \/ CopyCall) /\ currentProgressData = Absent) =>
       /\ UNCHANGED <<envVars, jsVars, computedAt>>
       /\ clipboardText' = NoText
       /\ clipboardWrites' = 0
       /\ toastShown' = NoToast
       /\ lastCleared' = {}]_vars

\* C13 witness: copyToClipboard has been called with no record stored.
C13_Witness ==
  /\ lastOp = "copy"
  /\ currentProgressData = Absent
  /\ computedAt = Never
  /\ clipboardText = NoText /\ clipboardWrites = 0 /\ toastShown = NoToast

\* C14: after cleanup() has run, updateTimer and debounceTimeout are null
\* and no interval and no debounce timeout armed by the program is active.
C14_CleanupClearsAllHandles ==
  lastOp = "cleanup" =>
    /\ updateTimer = Null /\ debounceTimeout = Null
    /\ intervals = {} /\ timeouts = {}

\* C15: at every instant the percentage getYearProgressPrecise returns is
\* at least 0 and at most 100 (as a fraction 100 * (days + ms / MsPerDay) /
\* of: days and ms not negative, and not beyond the whole year).
C15_PercentageWithinBounds ==
  lastOp = "compute" =>
    LET p == currentProgressData.percentage
    IN  /\ p.of > 0
        /\ p.days >= 0 /\ p.ms >= 0 /\ p.ms < MsPerDay
        /\ p.days < p.of \/ (p.days = p.of /\ p.ms = 0)

\* C15 witness: the record of the last millisecond of a leap year.
C15_Witness ==
  /\ lastOp = "compute"
  /\ dateNow = [year |-> 2024, day |-> 365, ms |-> MsPerDay - 1]
  /\ currentProgressData.percentage.days = 365
  /\ currentProgressData.percentage.of = 366

\* C16: totalDaysInYear is 366 exactly for the years divisible by 4 and not
\* by 100, or divisible by 400, and 365 for the others: 2024 -> 366,
\* 2023 -> 365, 2000 -> 366, 1900 -> 365, and never another value.
C16_TotalDaysInYear ==
  lastOp = "compute" =>
    LET y == dateNow.year
        n == currentProgressData.totalDaysInYear
    IN  /\ n \in {365, 366}
        /\ n = 366 <=> ((y % 4 = 0 /\ y % 100 # 0) \/ y % 400 = 0)
        /\ y = 2024 => n = 366
        /\ y = 2023 => n = 365
        /\ y = 2000 => n = 366
        /\ y = 1900 => n = 365

\* C16 witness: a record computed in 1900, a century year without leap day.
C16_Witness ==
  /\ lastOp = "compute"
  /\ dateNow.year = 1900
  /\ currentProgressData.totalDaysInYear = 365

\* C17: at the exact start of a year (January 1st, 00:00:00.000) the
\* record has daysPassed = 0 and percentage = 0.
C17_YearStart ==
  (lastOp = "compute" /\ dateNow.day = 0 /\ dateNow.ms = 0) =>
    /\ currentProgressData.daysPassed = 0
    /\ currentProgressData.percentage.days = 0
    /\ currentProgressData.percentage.ms = 0

\* C17 witness: the clock has crossed into 2024 and a record has been
\* computed at its first instant.
C17_Witness ==
  /\ lastOp = "compute"
  /\ dateSteps > 0
  /\ dateNow = [year |-> 2024, day |-> 0, ms |-> 0]
  /\ currentProgressData.daysPassed = 0

\* C18 as stated: at every instant of the last 24 hours of the year (the
\* last day, from its midnight on) daysRemaining = 0.
C18_LastDayRemainingZero ==
  (lastOp = "compute" /\ dateNow.day = totalDaysInYear(dateNow.year) - 1) =>
    currentProgressData.daysRemaining = 0

\* C18 amended: daysRemaining = 0 at every instant less than 24 hours
\* before the start of the next year (one millisecond before it included),
\* and 1 at the instant exactly 24 hours before it.
C18_LastDayRemaining ==
  (lastOp = "compute" /\ dateNow.day = totalDaysInYear(dateNow.year) - 1) =>
    currentProgressData.daysRemaining = (IF dateNow.ms = 0 THEN 1 ELSE 0)

\* C18 witness: a record computed one millisecond before the next year.
C18_Witness ==
  /\ lastOp = "compute"
  /\ dateNow.day = totalDaysInYear(dateNow.year) - 1
  /\ dateNow.ms = MsPerDay - 1
  /\ currentProgressData.daysRemaining = 0

\* C19: daysPassed + daysRemaining is totalDaysInYear - 1 or
\* totalDaysInYear, and it is totalDaysInYear only at a whole number of
\* days after the year start.
C19_DaysSum ==
  lastOp = "compute" =>
    LET r   == currentProgressData
        sum == r.daysPassed + r.daysRemaining
    IN  /\ sum \in {r.totalDaysInYear - 1, r.totalDaysInYear}
        /\ sum = r.totalDaysInYear => dateNow.ms = 0

\* C20: the clipboard text built from a stored record has exactly
\* CLIPBOARD_BLOCKS_TOTAL glyphs: `filled` is the integer nearest to
\* percentage / (100 / 15) (the upper one on a tie), between 0 and 15,
\* `empty` is 15 - filled, and the number that follows is the integer
\* nearest to the percentage.
C20_ClipboardBar ==
  (lastOp = "copy" /\ currentProgressData # Absent) =>
    LET p  == currentProgressData.percentage
        n  == clipboardText.filled
        w  == clipboardText.pct
        qb == p.ms \div (MsPerDay \div 30)
        qw == p.ms \div (MsPerDay \div 200)
    IN  /\ n \in 0..15
        /\ clipboardText.empty = 15 - n
        /\ clipboardText.empty >= 0
        /\ n + clipboardText.empty = CLIPBOARD_BLOCKS_TOTAL
        /\ (2 * n - 1) * p.of - 30 * p.days <= qb
        /\ qb < (2 * n + 1) * p.of - 30 * p.days
        /\ w \in 0..100
        /\ (2 * w - 1) * p.of - 200 * p.days <= qw
        /\ qw < (2 * w + 1) * p.of - 200 * p.days

\* C20 witness: a copy made from the record of exactly 50 %: 7.5 blocks
\* round to 8 filled and 7 empty glyphs, followed by 50.
C20_Witness ==
  /\ lastOp = "copy"
  /\ currentProgressData # Absent
  /\ clipboardText = [filled |-> 8, empty |-> 7, pct |-> 50]

\* C21: the stored record is absent exactly until the first updateUI; from
\* then on it is, in every state, the complete record the most recent
\* updateUI computed (percentage, day counts and year length of that
\* instant), and no step puts back an older one or empties it.
C21_RecordOfLatestUpdate ==
  /\ [](currentProgressData = Absent <=> computedAt = Never)
  /\ [](computedAt # Never =>
          /\ currentProgressData = getYearProgressPrecise(computedAt)
          /\ DOMAIN currentProgressData =
               {"percentage", "daysPassed", "daysRemaining", "totalDaysInYear"}
          /\ currentProgressData.percentage.of = totalDaysInYear(computedAt.year))
  /\ [][currentProgressData # Absent =>
          /\ currentProgressData' # Absent
          /\ currentProgressData' # currentProgressData =>
                currentProgressData' = getYearProgressPrecise(CurrentInstant)]_vars

\* C21 witness: a later updateUI has overwritten the first record, and the
\* page has since handled an event that runs no updateUI.
C21_Witness ==
  /\ now = 3
  /\ computedAt = Instants[2]
  /\ currentProgressData = getYearProgressPrecise(Instants[2])
  /\ lastOp \in {"hidden", "copy", "exportEnd", "tick"}

\* C22: in part_000 the start that runs when the page becomes visible (or
\* is loaded visible) recomputes and updates both projections in that same
\* step: the live percentage and the static day counters both show the
\* record of the instant of the start, before any frame or interval fires.
C22_StartUpdatesBothProjections ==
  [][((TcDOMContentLoaded /\ ~hidden) \/ TcVisibilityChange(FALSE)) =>
       /\ tcStaticShown' = getYearProgressPrecise(CurrentInstant)
       /\ tcDisplayed' = getYearProgressPrecise(CurrentInstant).percentage]_vars

\* C23: in part_000, after a frame in which updateLiveElements throws, an
\* animation-frame callback is still pending (the loop goes on while the
\* page stays visible).
C23_ThrowingFrameKeepsLoop ==
  (lastOp = "frameThrew" /\ ~hidden) => tcFrames # {}

\* C24: a rendering failure inside updateUI is caught and does not stop
\* the scheduler.  A handler whose updateUI render throws completes: the
\* record is stored and the visible branch and the DOMContentLoaded start
\* still arm the interval; a deferred updateUI whose render throws leaves
\* updateTimer, the armed intervals and debounceTimeout as they were; and
\* every tick of an armed interval arms a deferred updateUI, which stores
\* a fresh record when it runs.
C24_RenderFailureKeepsScheduler ==
  /\ [](renderFailed => currentProgressData = getYearProgressPrecise(computedAt))
  /\ [][(renderFailed' /\ lastOp' = "debounce"
            /\ \E id \in timeouts : DebounceFire(id)) =>
          UNCHANGED <<updateTimer, intervals, debounceTimeout>>]_vars
  /\ [][(lastOp' = "visible" /\ updateTimer = Null
            /\ VisibilityChange(FALSE)) =>
          (updateTimer' # Null /\ updateTimer' \in intervals')]_vars
  /\ [][(lastOp' = "load" /\ ~hidden /\ DOMContentLoaded) =>
          (updateTimer' # Null /\ updateTimer' \in intervals')]_vars
  /\ [][(lastOp' = "tick" /\ \E id \in intervals : IntervalTick(id)) =>
          (debounceTimeout' # Null /\ debounceTimeout' \in timeouts')]_vars
  /\ [][(lastOp' = "debounce" /\ \E id \in timeouts : DebounceFire(id)) =>
          currentProgressData' = getYearProgressPrecise(CurrentInstant)]_vars

\* C24 witness: the deferred updateUI has run with a throwing render while
\* the interval stays armed.
C24_Witness ==
  /\ renderFailed /\ lastOp = "debounce"
  /\ updateTimer # Null /\ updateTimer \in intervals
  /\ currentProgressData = getYearProgressPrecise(computedAt)

\* C25: debounceTimeout is non-null only while the timeout it names is
\* pending: once the deferred updateUI has fired (or the timeout has been
\* cancelled) the field is null again.
C25_DebounceTimeoutOnlyWhilePending ==
  /\ (debounceTimeout # Null => debounceTimeout \in timeouts)
  /\ (lastOp = "debounce" => debounceTimeout = Null)

\* C26: updateTimer is non-null exactly when a refresh interval armed by
\* the program is active, and then it names that interval.
C26_UpdateTimerIffIntervalActive ==
  /\ (updateTimer # Null <=> intervals # {})
  /\ (updateTimer # Null => updateTimer \in intervals)

\* C27: every clearInterval/clearTimeout call of a handler is applied to a
\* handle whose timer is still pending when the handler starts, so no
\* handle is cancelled twice (or cancelled after it has fired).
C27_NoHandleClearedTwice ==
  [][\/ ClockAdvance
     \/ \E h \in BOOLEAN : VisibilityUnheard(h)
     \/ lastCleared' \subseteq (intervals \cup timeouts)]_vars

\* C28: the year boundaries are derived from the current instant on every
\* computation.  While the refresh keeps running over the end of December
\* 31st, every stored record has the length of the year it was computed in
\* and counts the days from that year's start, and the first record
\* computed in the new year has daysPassed = 0, the new year's length and a
\* percentage below one day's share.
C28_YearBoundariesFresh ==
  /\ [](computedAt # Never =>
          /\ currentProgressData.totalDaysInYear = totalDaysInYear(computedAt.year)
          /\ currentProgressData.daysPassed = computedAt.day
          /\ currentProgressData.percentage.days = computedAt.day
          /\ currentProgressData.percentage.of = totalDaysInYear(computedAt.year))
  /\ [][(computedAt # Never /\ computedAt'.year > computedAt.year) =>
          /\ currentProgressData'.daysPassed = 0
          /\ currentProgressData'.totalDaysInYear = totalDaysInYear(computedAt.year + 1)
          /\ currentProgressData'.totalDaysInYear # currentProgressData.totalDaysInYear
          /\ currentProgressData'.percentage.days = 0
          /\ currentProgressData'.percentage.of = currentProgressData'.totalDaysInYear]_vars

\* C28 witness: the scheduler started in the last millisecond of 2023 and
\* its deferred updateUI has stored the first record of the leap year 2024.
C28_Witness ==
  /\ Instants[now] = [year |-> 2023, day |-> 364, ms |-> 86399999]
  /\ lastOp = "debounce" /\ fired > 0
  /\ computedAt.year = 2024
  /\ currentProgressData.daysPassed = 0
  /\ currentProgressData.totalDaysInYear = 366

C30_CadenceNeverStarves ==
  /\ [][(lastOp' = "tick" /\ \E id \in intervals : CadenceTick(id)) =>
          /\ timeouts = {}
          /\ burst = fired
          /\ burst > 0 => time - lastTriggerAt = UPDATE_INTERVAL]_vars
  /\ [][(lastOp' = "debounce" /\ \E id \in timeouts : CadenceFire(id)) =>
          /\ time = lastTriggerAt + DEBOUNCE_DELAY
          /\ fired' = burst
          /\ currentProgressData' = getYearProgressPrecise(CurrentInstant)]_vars
  /\ (lastOp = "tick") ~> (lastOp = "debounce")

\* C31: the fraction getYearProgressPrecise computes is
\* (instant - yearStart) / (yearEndExclusive - yearStart) capped at 1: the
\* denominator the code uses, totalDaysInYear x 24 h, equals
\* yearEndExclusive - yearStart, so the fraction is below 1 at every instant
\* before the year's end.
C31_FractionOfLocalYear ==
  lastOp = "compute" =>
    LET p == currentProgressData.percentage
    IN  /\ totalMsInYear(dateNow.year) = yearLength(dateNow.year)
        /\ p.of = yearLength(dateNow.year).days
        /\ p = [days |-> dateNow.day, ms |-> dateNow.ms,
                of |-> yearLength(dateNow.year).days]
        /\ p.days < p.of

\* C32: in part_001 a second export request made while an export is
\* pending is rejected or queued: at most one capture is in flight, and a
\* click during a pending capture starts none.
C32_OneCaptureInFlight ==
  /\ [](siCaptures <= 1)
  /\ [][(siCaptures > 0 /\ lastOp' = "exportStart" /\ SiExportClick) =>
          siCaptures' = siCaptures]_vars

\* C33: at most one refresh interval is active in every reachable state,
\* whatever the order of events, and every active interval is the one
\* updateTimer refers to.
C33_AtMostOneInterval ==
  /\ Cardinality(intervals) <= 1
  /\ \A id \in intervals : updateTimer = id

\* C34: in part_000 at most one animation-frame callback is pending and at
\* most one static interval is active in every reachable state, and none
\* while the page is hidden, also when the page goes hidden and visible
\* again during an export that then finishes.
C34_OneLoopOneInterval ==
  /\ Cardinality(tcFrames) <= 1
  /\ Cardinality(tcIntervals) <= 1
  /\ hidden => (tcFrames = {} /\ tcIntervals = {})

\* C35: once cleanup() has run no timer is armed again: no step adds an
\* interval or a timeout, in particular not the end of an export that was
\* in flight when cleanup ran.
C35_NoTimerAfterCleanup ==
  [][cleanedUp => (intervals' \subseteq intervals /\ timeouts' \subseteq timeouts)]_vars

\* C36: after every hidden notification followed by a visible one, both
\* handled by handleVisibilityChange, the record has been recomputed and
\* exactly one refresh interval is active, the one updateTimer refers to,
\* whatever happened before the hidden notification.
C36_HiddenVisibleRestarts ==
  [][(lastOp = "hidden" /\ lastOp' = "visible" /\ VisibilityChange(FALSE)) =>
       /\ currentProgressData' = getYearProgressPrecise(CurrentInstant)
       /\ computedAt' = CurrentInstant
       /\ Cardinality(intervals') = 1
       /\ updateTimer' \in intervals']_vars

\* C37: at every instant the record has 0 <= daysPassed <=
\* totalDaysInYear - 1 and 0 <= daysRemaining <= totalDaysInYear, and
\* daysRemaining = totalDaysInYear only at the exact start of the year.
C37_DayCountersInRange ==
  lastOp = "compute" =>
    LET r == currentProgressData
    IN  /\ 0 <= r.daysPassed /\ r.daysPassed <= r.totalDaysInYear - 1
        /\ 0 <= r.daysRemaining /\ r.daysRemaining <= r.totalDaysInYear
        /\ r.daysRemaining = r.totalDaysInYear =>
              (dateNow.day = 0 /\ dateNow.ms = 0)

\* C38: for two instants t1 <= t2 of one calendar year the records satisfy
\* percentage(t1) <= percentage(t2), daysPassed(t1) <= daysPassed(t2) and
\* daysRemaining(t1) >= daysRemaining(t2).  t1 is the instant of the stored
\* record and t2 the clock's instant later in that year; the record a
\* computation stores is compared with the one it replaces.
C38_NeverBackwards ==
  /\ []((computedAt # Never /\ computedAt.year = dateNow.year
           /\ notAfter(computedAt, dateNow)) =>
          LET r1 == currentProgressData
              r2 == getYearProgressPrecise(dateNow)
          IN  /\ r1.percentage.of = r2.percentage.of
              /\ percentageLeq(r1.percentage, r2.percentage)
              /\ r1.daysPassed <= r2.daysPassed
              /\ r1.daysRemaining >= r2.daysRemaining)
  /\ [][(lastOp' = "compute" /\ computedAt # Never
            /\ computedAt'.year = computedAt.year /\ Compute) =>
          /\ percentageLeq(currentProgressData.percentage, currentProgressData'.percentage)
          /\ currentProgressData.daysPassed <= currentProgressData'.daysPassed
          /\ currentProgressData.daysRemaining >= currentProgressData'.daysRemaining]_vars

\* C38 witness: a record computed in the first hour of a year that is an
\* hour longer than its days is stored, and the clock has reached the
\* year's last hour: the percentage has grown to its cap, daysPassed has
\* grown and daysRemaining has fallen to 0.
C38_Witness ==
  /\ lastOp = "elapse"
  /\ zoneShift > 0
  /\ computedAt # Never /\ computedAt.year = dateNow.year
  /\ computedAt.day = 0 /\ dateNow.day = totalDaysInYear(dateNow.year)
  /\ currentProgressData.daysPassed < getYearProgressPrecise(dateNow).daysPassed
  /\ currentProgressData.daysRemaining > getYearProgressPrecise(dateNow).daysRemaining
  /\ getYearProgressPrecise(dateNow).daysRemaining = 0
  /\ getYearProgressPrecise(dateNow).percentage.days
       = getYearProgressPrecise(dateNow).percentage.of

====
